---- MODULE Spec2Model ----
(***************************************************************************)
(* benchtoolz: the matrix orchestrator (runbenchmarks), the adaptive       *)
(* measurement (bettertimeit), the natural sort (numericstringkey,         *)
(* nsorted) they rest on, and the tables of BenchPrinter.                  *)
(*                                                                         *)
(* A Python str is a sequence of one-character strings; None is the empty  *)
(* tuple and any other optional value v is <<v>>.  A Python float is a     *)
(* dyadic rational [num |-> n, lg |-> k], standing for n / 2^k.  The loop  *)
(* count of bettertimeit is always a power of two and is kept as its       *)
(* base-2 logarithm.  The times BenchPrinter is given are decimals            *)
(* [m |-> m, e |-> e], standing for m * 10^e seconds.                      *)
(***************************************************************************)
EXTENDS Integers, Sequences, FiniteSets, TLC

(***************************************************************************)
(* Bounds of the model.                                                    *)
(***************************************************************************)
MaxArenaNames == 3
MaxBenchNames == 2
MaxRepeat == 3
MaxShift == 36
MaxTrials == 3
MaxPrinters == 2

(***************************************************************************)
(* Strings.                                                                *)
(***************************************************************************)
None == << >>
Some(v) == << v >>

DigitChars == {"0", "1", "2", "3", "4", "5", "6", "7", "8", "9"}

IsDigit(c) == c \in DigitChars

DigitVal(c) ==
  CASE c = "0" -> 0 [] c = "1" -> 1 [] c = "2" -> 2 [] c = "3" -> 3
    [] c = "4" -> 4 [] c = "5" -> 5 [] c = "6" -> 6 [] c = "7" -> 7
    [] c = "8" -> 8 [] c = "9" -> 9

\* The code point of a character (ASCII), for the comparison of str values.
Ord(c) ==
  CASE IsDigit(c) -> 48 + DigitVal(c)
    [] c = "'" -> 39
    [] c = "(" -> 40
    [] c = ")" -> 41
    [] c = "." -> 46
    [] c = "_" -> 95
    [] c = "a" -> 97
    [] c = "b" -> 98
    [] c = "f" -> 102
    [] c = "g" -> 103
    [] c = "m" -> 109
    [] c = "w" -> 119
    [] c = "z" -> 122

\* str < str: lexicographic by code point, a proper prefix first.
RECURSIVE StrLess(_, _)
StrLess(a, b) ==
  IF b = << >> THEN FALSE
  ELSE IF a = << >> THEN TRUE
  ELSE IF Head(a) # Head(b) THEN Ord(Head(a)) < Ord(Head(b))
  ELSE StrLess(Tail(a), Tail(b))

\* int(item) of a run of decimal digits: leading zeros do not count.
RECURSIVE ToInt(_)
ToInt(ds) ==
  IF ds = << >> THEN 0
  ELSE 10 * ToInt(SubSeq(ds, 1, Len(ds) - 1)) + DigitVal(ds[Len(ds)])

\* The length of the longest prefix of s made of digits (d) or of non-digits.
RECURSIVE RunLen(_, _)
RunLen(s, d) ==
  IF s = << >> \/ IsDigit(Head(s)) # d THEN 0
  ELSE 1 + RunLen(Tail(s), d)

\* re.split(r'(\d+)', s): text, digits, text, ..., text.
RECURSIVE ReSplit(_)
ReSplit(s) ==
  LET n == RunLen(s, FALSE)
      rest == SubSeq(s, n + 1, Len(s))
      m == RunLen(rest, TRUE)
  IN  IF n = Len(s) THEN << s >>
      ELSE << SubSeq(s, 1, n), SubSeq(rest, 1, m) >>
             \o ReSplit(SubSeq(rest, m + 1, Len(rest)))

\* numericstringkey of a str: the items of the split, each run of digits
\* replaced by its integer (items 2, 4, ... of the split are the digit runs).
StringKey(sval) ==
  LET items == ReSplit(sval)
  IN  [i \in 1..Len(items) |->
         IF i % 2 = 0 THEN ToInt(items[i]) ELSE items[i]]

\* numericstringkey: of a tuple, the tuple of the keys of its items.
numericstringkey(sval, istuple) ==
  IF istuple THEN [i \in 1..Len(sval) |-> StringKey(sval[i])]
  ELSE StringKey(sval)

\* Python's < on two keys of one str: the first differing item decides (text
\* against text at the odd places, int against int at the even ones), and a
\* proper prefix is smaller.
RECURSIVE StringKeyLess(_, _, _)
StringKeyLess(k1, k2, i) ==
  IF i > Len(k2) THEN FALSE
  ELSE IF i > Len(k1) THEN TRUE
  ELSE IF k1[i] = k2[i] THEN StringKeyLess(k1, k2, i + 1)
  ELSE IF i % 2 = 0 THEN k1[i] < k2[i]
  ELSE StrLess(k1[i], k2[i])

RECURSIVE TupleKeyLess(_, _, _)
TupleKeyLess(k1, k2, i) ==
  IF i > Len(k2) THEN FALSE
  ELSE IF i > Len(k1) THEN TRUE
  ELSE IF k1[i] = k2[i] THEN TupleKeyLess(k1, k2, i + 1)
  ELSE StringKeyLess(k1[i], k2[i], 1)

KeyLess(k1, k2, istuple) ==
  IF istuple THEN TupleKeyLess(k1, k2, 1) ELSE StringKeyLess(k1, k2, 1)

\* sorted() is stable: an item goes before the first item with a larger key,
\* so items with equal keys keep the order they came in.
RECURSIVE InsertByKey(_, _, _)
InsertByKey(acc, x, istuple) ==
  IF acc = << >> THEN << x >>
  ELSE IF KeyLess(numericstringkey(x, istuple),
                  numericstringkey(Head(acc), istuple), istuple)
       THEN << x >> \o acc
  ELSE << Head(acc) >> \o InsertByKey(Tail(acc), x, istuple)

RECURSIVE nsorted(_, _)
nsorted(items, istuple) ==
  IF items = << >> THEN << >>
  ELSE InsertByKey(nsorted(SubSeq(items, 1, Len(items) - 1), istuple),
                   items[Len(items)], istuple)


(***************************************************************************)
(* Floats: n / 2^k.  Every value is kept in lowest terms, so equal floats  *)
(* are equal records.  Numerators stay below 2^10.                         *)
(***************************************************************************)
RECURSIVE Norm(_)
Norm(d) ==
  IF d.num = 0 THEN [num |-> 0, lg |-> 0]
  ELSE IF d.lg < 0 THEN Norm([num |-> 2 * d.num, lg |-> d.lg + 1])
  ELSE IF d.lg > 0 /\ d.num % 2 = 0
       THEN Norm([num |-> d.num \div 2, lg |-> d.lg - 1])
  ELSE d

Float(n) == Norm([num |-> n, lg |-> 0])

\* a < b
DyLess(a, b) ==
  LET d == b.lg - a.lg
  IN  IF d >= 0
      THEN IF d >= 20 THEN a.num = 0 /\ b.num > 0
           ELSE a.num * (2 ^ d) < b.num
      ELSE IF d <= -20 THEN b.num > 0
           ELSE a.num < b.num * (2 ^ (0 - d))

\* x / 2^k and x * 2^k
DivPow2(v, k) == Norm([num |-> v.num, lg |-> v.lg + k])
MulPow2(v, k) == Norm([num |-> v.num, lg |-> v.lg - k])

\* min(times) of a non-empty list
RECURSIVE MinOf(_)
MinOf(ts) ==
  IF Len(ts) = 1 THEN ts[1]
  ELSE LET m == MinOf(Tail(ts))
       IN  IF DyLess(m, ts[1]) THEN m ELSE ts[1]

Range(s) == {s[j] : j \in 1..Len(s)}


(***************************************************************************)
(* Program constants.  One tick of the model's clock is 1/256 s, so the    *)
(* default mintime of 0.25 s is 64 ticks.                                  *)
(***************************************************************************)
default_mintime == 64
default_numrepeat == 3
ProbeRounds == 32

(***************************************************************************)
(* The state: the arguments of runbenchmarks and bettertimeit, their       *)
(* locals, and what the timer and the hooks were asked.                    *)
(***************************************************************************)
VARIABLES
  arenadict,     \* <<file, funcnames>> entries, in the dict's order
  benchdict,     \* <<file, funcnames>> entries, in the dict's order
  mintime,       \* ticks
  numrepeat,
  timer,         \* the fake timer of the run
  trialfilter,   \* "None" or "given"
  trialcallback, \* "None", "given" or, once installed, "ProgressPrinter"
  verbose,
  progress,      \* the ProgressPrinter of the run, if one is installed
  caller,        \* who called bettertimeit: "runbenchmarks" or "direct"
  pc,
  arenalist, benchlist, arenaindices, benchindices,
  bi, ai,        \* the cell: places in benchlist and arenalist
  trial, results, retval,
  statements, setup, loops, i, runtime, runtimeloops, tret,
  ntimer,        \* timer runs made so far, in all
  timerlog,      \* the <<statements, setup>> pairs timed so far, in order
  tcalls,        \* timer runs of the current bettertimeit call, by phase
  answer,        \* <<hook, answer>> of the hook the last step called, if any
  filtered,      \* the trials trialfilter answered False to
  printers,      \* the BenchPrinter objects constructed, in order
  gfm            \* what the last call of to_gfm gave: its text or its error

vars == << arenadict, benchdict, mintime, numrepeat, timer, trialfilter,
           trialcallback, verbose, progress, caller, pc, arenalist, benchlist, arenaindices,
           benchindices, bi, ai, trial, results, retval, statements, setup,
           loops, i, runtime, runtimeloops, tret, ntimer, timerlog, tcalls,
           answer, filtered, printers, gfm >>

printvars == << printers, gfm >>

inputs == << arenadict, benchdict, mintime, numrepeat, timer, trialfilter,
             trialcallback, verbose, caller >>

runvars == << arenalist, benchlist, arenaindices, benchindices, bi, ai,
              trial, results, retval >>

timeitvars == << statements, setup, loops, i, runtime, runtimeloops, tret,
                 tcalls >>

(***************************************************************************)
(* The collaborators of runbenchmarks.                                     *)
(***************************************************************************)
\* The name being benchmarked (the first argument of runbenchmarks).
name == << "f" >>

\* A list in place of the dict: every item kept.
KeepAll(items) == items

\* The keys of dict built by assigning the items in turn: each key once, at
\* the place of its first assignment.
RECURSIVE DictKeys(_)
DictKeys(items) ==
  IF items = << >> THEN << >>
  ELSE LET front == DictKeys(SubSeq(items, 1, Len(items) - 1))
           last == items[Len(items)]
       IN  IF last \in Range(front) THEN front ELSE Append(front, last)

\* The setup text of one arena function: it loads the file ("m") and binds
\* the function ("g").
ArenaSetupText(filename, funcname) ==
  << "m" >> \o filename \o << "g" >> \o funcname

\* getarenasetup: {funcname: setup text}, as the list of its items.
getarenasetup(filename, funcnames) ==
  LET keys == DictKeys(funcnames)
  IN  [j \in 1..Len(keys) |-> << keys[j], ArenaSetupText(filename, keys[j]) >>]

\* getbenchsetup: the setup text of a benchmark file.
getbenchsetup(filename) == << "m" >> \o filename

\* The body of a benchmark function: it calls f with the size its name gives.
BenchBody(benchname) ==
  LET key == StringKey(benchname)
  IN  << "f", "(" >> \o ReSplit(benchname)[IF Len(key) > 1 THEN 2 ELSE 1]
        \o << ")" >>

\* getbenchstrings: {benchname: body}, as the list of its items.
getbenchstrings(filename, benchnames) ==
  LET keys == DictKeys(benchnames)
  IN  [j \in 1..Len(keys) |-> << keys[j], BenchBody(keys[j]) >>]

RECURSIVE ArenaTuples(_)
ArenaTuples(adict) ==
  IF adict = << >> THEN << >>
  ELSE LET arenafile == adict[1][1]
           setupdict == getarenasetup(arenafile, adict[1][2])
       IN  [j \in 1..Len(setupdict) |->
              << arenafile, setupdict[j][1], setupdict[j][2] >>]
           \o ArenaTuples(Tail(adict))

getarenalist(adict) == nsorted(ArenaTuples(adict), TRUE)

RECURSIVE BenchTuples(_)
BenchTuples(bdict) ==
  IF bdict = << >> THEN << >>
  ELSE LET benchfile == bdict[1][1]
           benchsetup == getbenchsetup(benchfile)
           stringdict == getbenchstrings(benchfile, bdict[1][2])
       IN  [j \in 1..Len(stringdict) |->
              << benchfile, stringdict[j][1], benchsetup, stringdict[j][2] >>]
           \o BenchTuples(Tail(bdict))

getbenchlist(bdict) == nsorted(BenchTuples(bdict), TRUE)

\* dict((item, i) for i, item in enumerate(nsorted(funcnames))): a name that
\* comes more than once keeps its last place.
IndexDict(funcnames) ==
  LET s == nsorted(funcnames, FALSE)
  IN  [n \in Range(s) |->
         CHOOSE k \in 0..(Len(s) - 1) :
           s[k + 1] = n /\ \A j \in (k + 2)..Len(s) : s[j] # n]

\* {filename: {funcname: index}}
Indices(fdict) ==
  [f \in {fdict[j][1] : j \in 1..Len(fdict)} |->
     IndexDict((CHOOSE e \in Range(fdict) : e[1] = f)[2])]

\* The place of the first occurrence of sep in s, or 0.
FindFirst(s, sep) ==
  LET hits == {k \in 1..(Len(s) - Len(sep) + 1) :
                 SubSeq(s, k, k + Len(sep) - 1) = sep}
  IN  IF hits = {} THEN 0 ELSE CHOOSE k \in hits : \A h \in hits : k <= h

\* s.split(sep, 1)
Split1(s, sep) ==
  LET k == FindFirst(s, sep)
  IN  IF k = 0 THEN << s >>
      ELSE << SubSeq(s, 1, k - 1), SubSeq(s, k + Len(sep), Len(s)) >>

\* The trial dict of a cell, before its measurement.
BuildTrial(bench, arena, aindices, bindices) ==
  LET parts == Split1(arena[2], name)
  IN  [arenafile |-> arena[1],
       arenaindex |-> aindices[arena[1]][arena[2]],
       arenaname |-> arena[2],
       arenaprefix |-> parts[1],
       arenasuffix |-> parts[2],
       benchfile |-> bench[1],
       benchindex |-> bindices[bench[1]][bench[2]],
       benchname |-> bench[2],
       benchstring |-> bench[4],
       loops |-> None,
       mintime |-> None,
       setupstring |-> bench[3] \o arena[3],
       times |-> None]


(***************************************************************************)
(* The timer.  timeit.Timer(statements, setup, timer).timeit(loops) runs   *)
(* the statements loops times and returns what the timer read.  The fake   *)
(* timers of the model:                                                    *)
(*   percell       a hardcoded cost per candidate times the loop count,    *)
(*                 plus a jitter of 0, 1, 2 ticks that cycles with the     *)
(*                 runs;                                                   *)
(*   proportional  cost * loops, exactly;                                  *)
(*   monotone      any reading that is a non-decreasing function of the    *)
(*                 loop count;                                             *)
(*   any           any reading.                                            *)
(***************************************************************************)
\* What an arbitrary timer may read, around the thresholds of mintime.
ReadingPool(m) ==
  {Float(0), Float(m \div 4), Float(m \div 2), Float(m), Float(m + 1)}

\* The candidate's hardcoded cost, in ticks per loop: the number its name ends
\* with decides it.
CellCost(su) ==
  LET key == StringKey(su)
  IN  16 + 2 * (IF Len(key) > 1 THEN key[Len(key) - 1] ELSE 0)

\* The readings the n-th timer run of all may give for 2^lg loops.
TimerReadings(su, lg, n) ==
  CASE timer.kind = "percell" ->
         {Float(CellCost(su) * (2 ^ lg) + (n % 3))}
    [] timer.kind = "proportional" ->
         {MulPow2(timer.cost, lg)}
    [] timer.kind = "monotone" ->
         IF runtimeloops = None THEN ReadingPool(mintime)
         ELSE IF runtimeloops[1] = lg THEN {runtime[1]}
         ELSE {r \in ReadingPool(mintime) : ~DyLess(r, runtime[1])}
    [] timer.kind = "any" -> ReadingPool(mintime)

\* timer.repeat(k, loops): the readings of k runs in a row.
RepeatRuns(su, lg, k) ==
  CASE timer.kind \in {"percell", "proportional"} ->
         {[j \in 1..k |->
             CHOOSE r \in TimerReadings(su, lg, ntimer + j - 1) : TRUE]}
    [] timer.kind = "monotone" ->
         {[j \in 1..k |-> r] : r \in TimerReadings(su, lg, ntimer)}
    [] timer.kind = "any" -> [1..k -> ReadingPool(mintime)]

(***************************************************************************)
(* bettertimeit                                                            *)
(***************************************************************************)
\* Half of mintime taken for long enough.
ConvergedAtHalf(r, m) == DyLess(DivPow2(Float(m), 1), r)

\* runtime > mintime: the probe is long enough.
Converged(r, m) == DyLess(Float(m), r)

\* A table that always scales by 8.
ScaleLoopsBy8(r, m) == 3

\* The table that scales loops after a probe that was too short, as the
\* exponent of the factor: *2, *4 or *8.
ScaleLoops(r, m) ==
  IF DyLess(DivPow2(Float(m), 1), r) THEN 1
  ELSE IF DyLess(DivPow2(Float(m), 2), r) THEN 2
  ELSE IF DyLess(DivPow2(Float(m), 3), r) THEN 3
  ELSE IF DyLess(DivPow2(Float(m), 4), r) THEN 1
  ELSE IF DyLess(DivPow2(Float(m), 5), r) THEN 3
  ELSE IF DyLess(DivPow2(Float(m), 6), r) THEN 3
  ELSE 1

\* The log of what was timed: each <<statements, setup>> once, in the order
\* of its first run.
Logged(log, what) == IF what \in Range(log) THEN log ELSE Append(log, what)

\* What the call starts with: loops = 1, nothing timed yet.
EnterTimeit(stmts, su) ==
  /\ statements' = stmts
  /\ setup' = su
  /\ loops' = 0
  /\ i' = 0
  /\ runtime' = None
  /\ runtimeloops' = None
  /\ tret' = None
  /\ tcalls' = [probe |-> 0, repeat |-> 0]

\* One round more than the range has.
MoreRoundsInclusive(k) == k <= ProbeRounds

\* for i in range(32): k rounds done, is there another one?
MoreRounds(k) == k < ProbeRounds

\* One round of the probing loop: time the statements, then stop or scale.
Probe ==
  /\ pc = "probe"
  /\ \E r \in TimerReadings(setup, loops, ntimer) :
       /\ runtime' = Some(r)
       /\ runtimeloops' = Some(loops)
       /\ IF Converged(r, mintime)
          THEN /\ loops' = loops
               /\ i' = i
               /\ pc' = "repeat"
          ELSE /\ loops' = loops + ScaleLoops(r, mintime)
               /\ i' = i + 1
               /\ pc' = IF MoreRounds(i + 1) THEN "probe" ELSE "repeat"
  /\ ntimer' = ntimer + 1
  /\ timerlog' = Logged(timerlog, << statements, setup >>)
  /\ tcalls' = [tcalls EXCEPT !.probe = @ + 1]
  /\ answer' = None
  /\ UNCHANGED << printvars, progress >>
  /\ UNCHANGED << inputs, runvars, statements, setup, tret, filtered >>

\* The per-loop times of the repetitions and of the last probe.
TimesOf(readings, lg) == [j \in 1..Len(readings) |-> DivPow2(readings[j], lg)]

\* The last probe not counted as a repetition.
RepeatCountAll(n) == n

\* How many runs timer.repeat is asked for.
RepeatCount(n) == n - 1

\* After the loop: the repetitions, the last probe added, the division.
Finish ==
  /\ pc = "repeat"
  /\ \E rs \in RepeatRuns(setup, loops, RepeatCount(numrepeat)) :
       /\ tret' = Some([times |-> TimesOf(rs \o runtime, loops),
                        loops |-> loops])
       /\ ntimer' = ntimer + Len(rs)
       /\ timerlog' = IF Len(rs) > 0
                      THEN Logged(timerlog, << statements, setup >>)
                      ELSE timerlog
       /\ tcalls' = [tcalls EXCEPT !.repeat = Len(rs)]
  /\ pc' = IF caller = "direct" THEN "done" ELSE "update"
  /\ answer' = None
  /\ UNCHANGED << printvars, progress >>
  /\ UNCHANGED << inputs, runvars, statements, setup, loops, i, runtime,
                  runtimeloops, filtered >>


(***************************************************************************)
(* Decimals: m * 10^e.  A value is kept with m not a multiple of 10, so    *)
(* equal values are equal records (1000e-3 is 1.0).  Products of decimals  *)
(* are exact here; the mantissas of the model have at most three digits.   *)
(***************************************************************************)
RECURSIVE NormDec(_)
NormDec(d) ==
  IF d.m = 0 THEN [m |-> 0, e |-> 0]
  ELSE IF d.m % 10 = 0 THEN NormDec([m |-> d.m \div 10, e |-> d.e + 1])
  ELSE d

Dec(m, e) == NormDec([m |-> m, e |-> e])

\* The number of decimal digits of n > 0.
RECURSIVE Digits(_)
Digits(n) == IF n < 10 THEN 1 ELSE 1 + Digits(n \div 10)

\* The decimal exponent of d > 0: d is in [10^x, 10^(x+1)).
Exponent(d) == Digits(d.m) - 1 + d.e

\* a <= b in place of a < b
DecAtMost(a, b) ==
  IF a = b THEN TRUE
  ELSE IF b.m = 0 THEN FALSE
  ELSE IF a.m = 0 THEN TRUE
  ELSE IF Exponent(a) # Exponent(b) THEN Exponent(a) < Exponent(b)
  ELSE LET lo == IF a.e < b.e THEN a.e ELSE b.e
       IN  a.m * (10 ^ (a.e - lo)) < b.m * (10 ^ (b.e - lo))

\* a < b, for a, b >= 0
DecLess(a, b) ==
  IF b.m = 0 THEN FALSE
  ELSE IF a.m = 0 THEN TRUE
  ELSE IF Exponent(a) # Exponent(b) THEN Exponent(a) < Exponent(b)
  ELSE LET lo == IF a.e < b.e THEN a.e ELSE b.e
       IN  a.m * (10 ^ (a.e - lo)) < b.m * (10 ^ (b.e - lo))

\* a * b
DecMul(a, b) == Dec(a.m * b.m, a.e + b.e)

RECURSIVE Gcd(_, _)
Gcd(a, b) == IF b = 0 THEN a ELSE Gcd(b, a % b)

\* b / a in place of a / b
DecDivInverse(a, b) ==
  LET lo == IF a.e < b.e THEN a.e ELSE b.e
      p == b.m * (10 ^ (b.e - lo))
      q == a.m * (10 ^ (a.e - lo))
      g == Gcd(p, q)
  IN  [p |-> p \div g, q |-> q \div g]

\* a / b for b > 0: the quotient in lowest terms, p / q.
DecDiv(a, b) ==
  LET lo == IF a.e < b.e THEN a.e ELSE b.e
      p == a.m * (10 ^ (a.e - lo))
      q == b.m * (10 ^ (b.e - lo))
      g == Gcd(p, q)
  IN  [p |-> p \div g, q |-> q \div g]

\* sorted(values)
RECURSIVE InsertDec(_, _)
InsertDec(acc, x) ==
  IF acc = << >> THEN << x >>
  ELSE IF DecLess(x, Head(acc)) THEN << x >> \o acc
  ELSE << Head(acc) >> \o InsertDec(Tail(acc), x)

RECURSIVE SortedDecs(_)
SortedDecs(vals) ==
  IF vals = << >> THEN << >>
  ELSE InsertDec(SortedDecs(SubSeq(vals, 1, Len(vals) - 1)), vals[Len(vals)])

(***************************************************************************)
(* Text: str(int) and the '%.3g' conversion.                               *)
(***************************************************************************)
DigitChar(k) ==
  CASE k = 0 -> "0" [] k = 1 -> "1" [] k = 2 -> "2" [] k = 3 -> "3"
    [] k = 4 -> "4" [] k = 5 -> "5" [] k = 6 -> "6" [] k = 7 -> "7"
    [] k = 8 -> "8" [] k = 9 -> "9"

\* str(n), n >= 0
RECURSIVE IntStr(_)
IntStr(n) ==
  IF n < 10 THEN << DigitChar(n) >>
  ELSE IntStr(n \div 10) \o << DigitChar(n % 10) >>

\* k times the character c
Repeated(c, k) == [j \in 1..k |-> c]

\* (p / q) * 10^k rounded to three significant digits, ties to even, for
\* p, q > 0.
RECURSIVE RoundSig3(_, _, _)
RoundSig3(p, q, k) ==
  IF p >= 1000 * q THEN RoundSig3(p, 10 * q, k + 1)
  ELSE IF p < 100 * q THEN RoundSig3(10 * p, q, k - 1)
  ELSE LET f == p \div q
           r == p % q
           up == 2 * r > q \/ (2 * r = q /\ f % 2 = 1)
       IN  Dec(IF up THEN f + 1 ELSE f, k)

\* A decimal d > 0 of at most three digits as %g writes it: fixed notation
\* for exponents -4..2, else d.dde+XX; trailing zeros are not written.
Write3(d) ==
       LET ds == IntStr(d.m)
           nd == Len(ds)
           x == Exponent(d)
       IN  IF x < -4 \/ x >= 3
           THEN << ds[1] >>
                \o (IF nd > 1 THEN << "." >> \o SubSeq(ds, 2, nd) ELSE << >>)
                \o << "e", IF x < 0 THEN "-" ELSE "+" >>
                \o (LET ax == IF x < 0 THEN 0 - x ELSE x
                    IN  IF ax < 10 THEN << "0" >> \o IntStr(ax)
                        ELSE IntStr(ax))
           ELSE IF d.e >= 0 THEN ds \o Repeated("0", d.e)
           ELSE IF nd > 0 - d.e
                THEN SubSeq(ds, 1, nd + d.e) \o << "." >>
                     \o SubSeq(ds, nd + d.e + 1, nd)
           ELSE << "0", "." >> \o Repeated("0", 0 - d.e - nd) \o ds

\* '%.3g' % d
Fmt3g(d) ==
  IF d.m = 0 THEN << "0" >> ELSE Write3(RoundSig3(d.m, 1, d.e))

\* '%.3g' % (p / q)
Fmt3gRatio(r) ==
  IF r.p = 0 THEN << "0" >> ELSE Write3(RoundSig3(r.p, r.q, 0))

(***************************************************************************)
(* best_units                                                              *)
(***************************************************************************)
\* Returns the scale factor and the prefix for num.
best_units(num) ==
  IF DecLess(num, Dec(1, -12)) THEN << Dec(1, 15), << "f" >> >>
  ELSE IF DecLess(num, Dec(1, -9)) THEN << Dec(1, 12), << "p" >> >>
  ELSE IF DecLess(num, Dec(1, -6)) THEN << Dec(1, 9), << "n" >> >>
  ELSE IF DecLess(num, Dec(1, -3)) THEN << Dec(1, 6), << "u" >> >>
  ELSE IF DecLess(num, Dec(1, 0)) THEN << Dec(1, 3), << "m" >> >>
  ELSE IF DecLess(num, Dec(1, 3)) THEN << Dec(1, 0), << >> >>
  ELSE IF DecLess(num, Dec(1, 6)) THEN << Dec(1, -3), << "k" >> >>
  ELSE IF DecLess(num, Dec(1, 9)) THEN << Dec(1, -6), << "M" >> >>
  ELSE IF DecLess(num, Dec(1, 12)) THEN << Dec(1, -9), << "G" >> >>
  ELSE << Dec(1, -12), << "T" >> >>

(***************************************************************************)
(* ProgressPrinter: the callback runbenchmarks installs when verbose is    *)
(* True and the caller gives none.  Of what it prints, the number of       *)
(* lines is kept.  __init__ sets arenafile, benchfile, timescale and       *)
(* timeunits and does not set benchname.                                   *)
(***************************************************************************)
\* The lines __init__ prints for a dict of files: a title, a line per file
\* and per function, and for the arenas an empty line.
RECURSIVE ListedLines(_)
ListedLines(fdict) ==
  IF fdict = << >> THEN 0
  ELSE 1 + Len(fdict[1][2]) + ListedLines(Tail(fdict))

ProgressPrinter(adict, bdict) ==
  [arenafile |-> None,
   benchfile |-> None,
   benchname |-> [isset |-> FALSE, value |-> << >>],
   timescale |-> None,
   timeunits |-> None,
   printed |-> (IF adict = << >> THEN 0 ELSE 2 + ListedLines(adict))
               + (IF bdict = << >> THEN 0 ELSE 1 + ListedLines(bdict))]

\* A float of the run, in ticks, as seconds: n / 2^(k + 8) is
\* n * 5^(k + 8) / 10^(k + 8).
SecondsOf(v) == Dec(v.num * (5 ^ (v.lg + 8)), 0 - (v.lg + 8))

\* __call__(trial).  Reading self.benchname before it was ever assigned
\* raises AttributeError; "or" reads it only when the benchfiles are equal.
ProgressCall(self, t) ==
  LET otherfile == Some(t.benchfile) # self.benchfile
      reads == ~otherfile
      heading == otherfile \/ t.benchname # self.benchname.value
      s1 == IF heading
            THEN [self EXCEPT !.arenafile = None,
                              !.timescale = None,
                              !.timeunits = None,
                              !.benchfile = Some(t.benchfile),
                              !.benchname = [isset |-> TRUE,
                                             value |-> t.benchname],
                              !.printed = @ + 2]
            ELSE self
      s2 == IF Some(t.arenafile) # s1.arenafile
            THEN [s1 EXCEPT !.arenafile = Some(t.arenafile),
                            !.printed = @ + 1]
            ELSE s1
      units == best_units(SecondsOf(t.mintime[1]))
      s3 == IF s2.timescale = None
            THEN [s2 EXCEPT !.timescale = Some(units[1]),
                            !.timeunits = Some(units[2] \o << "s", "e", "c" >>)]
            ELSE s2
  IN  IF reads /\ ~self.benchname.isset
      THEN [self |-> Some(self), raised |-> TRUE, returns |-> "None"]
      ELSE [self |-> Some([s3 EXCEPT !.printed = @ + 1]),
            raised |-> FALSE, returns |-> "None"]

(***************************************************************************)
(* runbenchmarks                                                           *)
(***************************************************************************)
\* What a hook may return.
HookReturns == {"False", "True", "None", "0"}

\* "not <hook>(trial)" in place of "<hook>(trial) is False"
IsFalsy(r) == r \in {"False", "None", "0"}

\* "<hook>(trial) is False"
IsFalse(r) == r = "False"

\* "if verbose is True and trialcallback is None"
Installs(v, callback) == v /\ callback = "None"

\* The cell after (b, a) in the nested loops, or << >> after the last one.
NextCell(b, a) ==
  IF a < Len(arenalist) THEN << b, a + 1 >>
  ELSE IF b < Len(benchlist) THEN << b + 1, 1 >>
  ELSE << >>

\* return results
Return(res) ==
  /\ pc' = "returned"
  /\ retval' = Some(res)
  /\ UNCHANGED << bi, ai >>

\* Go on with the next cell of the loops; after the last one, return.
Continue(res) ==
  LET nxt == NextCell(bi, ai)
  IN  IF nxt = << >> THEN Return(res)
      ELSE /\ pc' = "cell"
           /\ bi' = nxt[1]
           /\ ai' = nxt[2]
           /\ retval' = retval

\* The break of the inner loop only, in place of the return.
CancelRow(res) ==
  IF bi < Len(benchlist)
  THEN /\ pc' = "cell"
       /\ bi' = bi + 1
       /\ ai' = 1
       /\ retval' = retval
  ELSE Return(res)

\* What trialcallback's answer False does.
Cancel(res) == Return(res)

\* Before the loops: the sorted lists and the indices.
Start ==
  /\ pc = "start"
  /\ arenalist' = getarenalist(arenadict)
  /\ benchlist' = getbenchlist(benchdict)
  /\ arenaindices' = Indices(arenadict)
  /\ benchindices' = Indices(benchdict)
  /\ results' = << >>
  /\ IF arenadict = << >> \/ benchdict = << >>
     THEN /\ pc' = "returned"
          /\ retval' = Some(<< >>)
          /\ UNCHANGED << bi, ai >>
     ELSE /\ pc' = "cell"
          /\ bi' = 1
          /\ ai' = 1
          /\ retval' = retval
  /\ IF Installs(verbose, trialcallback)
     THEN /\ trialcallback' = "ProgressPrinter"
          /\ progress' = Some(ProgressPrinter(arenadict, benchdict))
     ELSE UNCHANGED << trialcallback, progress >>
  /\ UNCHANGED printvars
  /\ UNCHANGED << arenadict, benchdict, mintime, numrepeat, timer,
                  trialfilter, verbose, caller, trial, timeitvars, ntimer,
                  timerlog, answer, filtered >>

\* What a hook's answer r is noted as: nothing when no hook is supplied.
Noted(hook, which, r) == IF hook = "None" THEN None ELSE Some(<< which, r >>)

\* The test turned round: the cell is skipped when the filter accepts it.
RejectsAccepted(r) == trialfilter # "None" /\ r = "True"

\* "trialfilter is not None and trialfilter(trial) is False"
Rejects(r) == trialfilter # "None" /\ IsFalse(r)

\* "trialcallback is not None and trialcallback(trial) is False"
Cancels(r) == trialcallback # "None" /\ IsFalse(r)

\* One cell, up to the call of bettertimeit: the trial is built and shown to
\* trialfilter, whose answer is r.
EnterCell(r) ==
  /\ pc = "cell"
  /\ IF FindFirst(arenalist[ai][2], name) = 0
     THEN \* the unpacking of split's result raises ValueError
          /\ pc' = "raised"
          /\ UNCHANGED << bi, ai, retval, trial, timeitvars, answer,
                          filtered >>
     ELSE LET t == BuildTrial(benchlist[bi], arenalist[ai],
                              arenaindices, benchindices)
          IN  /\ trial' = t
              /\ answer' = Noted(trialfilter, "trialfilter", r)
              /\ filtered' = IF trialfilter # "None" /\ r = "False"
                              THEN filtered \cup {t}
                              ELSE filtered
              /\ IF Rejects(r)
                 THEN /\ Continue(results)
                      /\ UNCHANGED timeitvars
                 ELSE /\ pc' = "probe"
                      /\ EnterTimeit(t.benchstring, t.setupstring)
                      /\ UNCHANGED << bi, ai, retval >>
  /\ UNCHANGED << printvars, progress >>
  /\ UNCHANGED << inputs, arenalist, benchlist, arenaindices, benchindices,
                  results, ntimer, timerlog >>

\* The answers a hook can give in this run: none when it is not supplied,
\* what its __call__ returns when it is the ProgressPrinter.
Answers(hook) ==
  IF hook = "None" THEN {"NoCall"}
  ELSE IF hook = "ProgressPrinter" THEN {"__call__"}
  ELSE HookReturns

Cell == \E r \in Answers(trialfilter) : EnterCell(r)

\* The first time taken for the minimum.
MeasuredFirst(t, ret) ==
  [t EXCEPT !.loops = Some(ret.loops),
            !.mintime = Some(ret.times[1]),
            !.times = Some(ret.times)]

\* trial.update(loops, mintime, times)
Measured(t, ret) ==
  [t EXCEPT !.loops = Some(ret.loops),
            !.mintime = Some(MinOf(ret.times)),
            !.times = Some(ret.times)]

\* After bettertimeit: the trial is updated, appended and shown to
\* trialcallback, whose answer is r.
Update(r) ==
  /\ pc = "update"
  /\ LET t == Measured(trial, tret[1])
         call == IF r = "__call__" THEN ProgressCall(progress[1], t)
                 ELSE [self |-> progress, raised |-> FALSE, returns |-> r]
     IN  /\ trial' = t
         /\ results' = Append(results, t)
         /\ progress' = call.self
         /\ IF call.raised
            THEN /\ pc' = "raised"
                 /\ answer' = None
                 /\ UNCHANGED << bi, ai, retval >>
            ELSE /\ answer' = Noted(trialcallback, "trialcallback",
                                    call.returns)
                 /\ IF Cancels(call.returns)
                    THEN Cancel(Append(results, t))
                    ELSE Continue(Append(results, t))
  /\ UNCHANGED printvars
  /\ UNCHANGED << inputs, arenalist, benchlist, arenaindices, benchindices,
                  timeitvars, ntimer, timerlog, filtered >>

Callback == \E r \in Answers(trialcallback) : Update(r)

(***************************************************************************)
(* BenchPrinter.  A dict is the sequence of its <<key, value>> items in    *)
(* the order the keys were first assigned.                                 *)
(***************************************************************************)
\* s.startswith(pre)
StartsWith(s, pre) == Len(pre) <= Len(s) /\ SubSeq(s, 1, Len(pre)) = pre

\* _strip_prefix: the longest of the prefixes that sval starts with is taken
\* off; prefix is None, one str (as <<str>>) or a list of strs.
strip_prefix(sval, prefix) ==
  IF prefix = None THEN sval
  ELSE LET hits == {pre \in Range(prefix[1]) : StartsWith(sval, pre)}
       IN  IF hits = {} THEN sval
           ELSE LET pre == CHOOSE h \in hits :
                             \A g \in hits : Len(g) <= Len(h)
                IN  SubSeq(sval, Len(pre) + 1, Len(sval))

\* The keys of resultdict, in the order of their first trial.
RECURSIVE TableKeys(_)
TableKeys(trials) ==
  IF trials = << >> THEN << >>
  ELSE LET before == TableKeys(SubSeq(trials, 1, Len(trials) - 1))
           t == trials[Len(trials)]
           key == << t.benchfile, t.arenafile >>
       IN  IF key \in Range(before) THEN before ELSE Append(before, key)

\* The trials grouped by benchfile alone.
TrialsOfBenchfile(trials, key) ==
  SelectSeq(trials, LAMBDA t : t.benchfile = key[1])

\* resultdict[key]: the trials of the key, in the order of results.
TrialsOf(trials, key) ==
  SelectSeq(trials, LAMBDA t : << t.benchfile, t.arenafile >> = key)

\* The items of a set of ints in ascending order: sorted(d.items()) of a dict
\* with int keys.
RECURSIVE Ascending(_)
Ascending(ks) ==
  IF ks = {} THEN << >>
  ELSE LET least == CHOOSE k \in ks : \A j \in ks : k <= j
       IN  << least >> \o Ascending(ks \ {least})

\* The datum of a trial before the row is ranked.
Datum(t, arenaprefixes, benchprefixes) ==
  [arenaindex |-> t.arenaindex,
   arenaname |-> t.arenaname,
   arenashort |-> strip_prefix(t.arenaname, arenaprefixes),
   benchindex |-> t.benchindex,
   benchname |-> t.benchname,
   benchshort |-> strip_prefix(t.benchname, benchprefixes),
   loops |-> t.loops[1],
   seconds |-> t.mintime[1],
   trialdata |-> t]

\* bybench[benchindex][arenaindex]: the datum of the last trial with these
\* indices.
Bybench(trials, arenaprefixes, benchprefixes) ==
  LET bs == {trials[j].benchindex : j \in 1..Len(trials)}
      as(b) == {trials[j].arenaindex :
                  j \in {k \in 1..Len(trials) : trials[k].benchindex = b}}
      last(b, a) == CHOOSE j \in 1..Len(trials) :
                      /\ trials[j].benchindex = b
                      /\ trials[j].arenaindex = a
                      /\ \A k \in (j + 1)..Len(trials) :
                           ~(trials[k].benchindex = b
                             /\ trials[k].arenaindex = a)
  IN  [b \in bs |->
         [a \in as(b) |-> Datum(trials[last(b, a)], arenaprefixes,
                                benchprefixes)]]

\* The places counted from the largest value.
RankOfDescending(sortedvals, v) ==
  CHOOSE j \in 1..Len(sortedvals) :
    /\ sortedvals[Len(sortedvals) + 1 - j] = v
    /\ \A k \in (j + 1)..Len(sortedvals) :
         sortedvals[Len(sortedvals) + 1 - k] # v

\* ranks = dict(zip(sortedvals, range(1, len(sortedvals) + 1))); ranks[v]:
\* a value that comes more than once keeps the last of its places.
RankOf(sortedvals, v) ==
  CHOOSE j \in 1..Len(sortedvals) :
    /\ sortedvals[j] = v
    /\ \A k \in (j + 1)..Len(sortedvals) : sortedvals[k] # v

\* A row of bybench with the ranks, relative times, units and texts set.
RankedRow(row) ==
  LET cols == Ascending(DOMAIN row)
      sortedvals == SortedDecs([j \in 1..Len(cols) |-> row[cols[j]].seconds])
      minval == sortedvals[1]
      maxval == sortedvals[Len(sortedvals)]
      su == best_units(maxval)
  IN  [a \in DOMAIN row |->
         LET d == row[a]
             reltime == DecDiv(d.seconds, minval)
             time == DecMul(d.seconds, su[1])
         IN  [arenaindex |-> d.arenaindex,
              arenaname |-> d.arenaname,
              arenashort |-> d.arenashort,
              benchindex |-> d.benchindex,
              benchname |-> d.benchname,
              benchshort |-> d.benchshort,
              loops |-> d.loops,
              seconds |-> d.seconds,
              trialdata |-> d.trialdata,
              isbest |-> (d.seconds = minval),
              rank |-> RankOf(sortedvals, d.seconds),
              reltime |-> reltime,
              scale |-> su[1],
              time |-> time,
              units |-> su[2] \o << "s" >>,
              sreltime |-> Fmt3gRatio(reltime),
              stime |-> Fmt3g(time)]]

\* _build_table: the rows in ascending benchindex, the data of a row in
\* ascending arenaindex.
build_table(trials, arenaprefixes, benchprefixes) ==
  LET bybench == Bybench(trials, arenaprefixes, benchprefixes)
      rows == Ascending(DOMAIN bybench)
  IN  [r \in 1..Len(rows) |->
         LET row == RankedRow(bybench[rows[r]])
             cols == Ascending(DOMAIN row)
         IN  [c \in 1..Len(cols) |-> row[cols[c]]]]

\* BenchPrinter(results, arenaprefixes, benchprefixes)
BenchPrinter(res, arenaprefixes, benchprefixes) ==
  LET keys == TableKeys(res)
  IN  [results |-> res,
       arenaprefixes |-> arenaprefixes,
       benchprefixes |-> benchprefixes,
       resultdict |-> [k \in 1..Len(keys) |->
                         << keys[k], TrialsOf(res, keys[k]) >>],
       tables |-> [k \in 1..Len(keys) |->
                     << keys[k],
                        build_table(TrialsOf(res, keys[k]), arenaprefixes,
                                    benchprefixes) >>]]

\* ' __%s__ ' % sval
Strong(sval) == << " ", "_", "_" >> \o sval \o << "_", "_", " " >>

\* '__Bench__ \\ __Func__ '
CornerText ==
  << "_", "_", "B", "e", "n", "c", "h", "_", "_", " ", "\\", " ",
     "_", "_", "F", "u", "n", "c", "_", "_", " " >>

\* The grave accent that GFM marks code with; it stands here as one
\* character under a name of its own.
Grave == "grave"

\* The label of a row of the table: ' __%s__ ' or, with the units as code,
\* ' __%s__ (%s) '.
RowLabel(datum, relative, rank) ==
  IF relative \/ rank THEN Strong(datum.benchshort)
  ELSE << " ", "_", "_" >> \o datum.benchshort
       \o << "_", "_", " ", "(", Grave >> \o datum.units
       \o << Grave, ")", " " >>

\* The text of a datum of a row of rowlen data: the best in bold, the second
\* best of more than two in italics.
CellText(datum, rowlen, relative, rank) ==
  LET val == IF relative THEN datum.sreltime
             ELSE IF rank THEN IntStr(datum.rank)
             ELSE datum.stime
  IN  IF datum.rank = 1 THEN Strong(val)
      ELSE IF datum.rank = 2 /\ rowlen > 2
           THEN << " ", "*" >> \o val \o << "*", " " >>
      ELSE << " " >> \o val \o << " " >>

\* The rows of text before they are justified: the column names, then a row
\* per row of the table.
GfmData(table, relative, rank) ==
  << << CornerText >>
     \o [c \in 1..Len(table[1]) |-> Strong(table[1][c].arenashort)] >>
  \o [r \in 1..Len(table) |->
        << RowLabel(table[r][1], relative, rank) >>
        \o [c \in 1..Len(table[r]) |->
              CellText(table[r][c], Len(table[r]), relative, rank)]]

Max(a, b) == IF a < b THEN b ELSE a

\* maxwidths[col] after the loop over data.
RECURSIVE MaxWidth(_, _)
MaxWidth(data, col) ==
  IF data = << >> THEN 0
  ELSE Max(IF col <= Len(Head(data)) THEN Len(Head(data)[col]) ELSE 0,
           MaxWidth(Tail(data), col))

\* sval.center(width)
Center(sval, width) ==
  IF Len(sval) >= width THEN sval
  ELSE LET marg == width - Len(sval)
           left == (marg \div 2) + (IF marg % 2 = 1 /\ width % 2 = 1
                                    THEN 1 ELSE 0)
       IN  Repeated(" ", left) \o sval \o Repeated(" ", marg - left)

\* A cell of data justified: the row labels to the right, the rest centred.
Justified(sval, col, width) ==
  IF col = 1 THEN Repeated(" ", width - Len(sval)) \o sval
  ELSE Center(sval, width)

\* The bar below the header, for one column.
HeaderBar(col, width) ==
  << IF col = 1 THEN " " ELSE ":" >>
  \o Repeated("-", Max(0, width - 2)) \o << ":" >>

\* '|%s|' % '|'.join(row)
RECURSIVE JoinCells(_)
JoinCells(row) ==
  IF row = << >> THEN << "|" >>
  ELSE << "|" >> \o Head(row) \o JoinCells(Tail(row))

\* os.linesep.join(lines)
RECURSIVE JoinLines(_)
JoinLines(lines) ==
  IF Len(lines) = 1 THEN lines[1]
  ELSE lines[1] \o << "\n" >> \o JoinLines(Tail(lines))

Raised(error) == [raised |-> error, text |-> << >>]
Returned(text) == [raised |-> "", text |-> text]

\* No test of the two views.
NeverBoth(relative, rank) == FALSE

\* relative and rank: the two views that cannot both be asked for.
BothViews(relative, rank) == relative /\ rank

\* to_gfm(table, relative, rank): the text of the table, or the error raised.
to_gfm(table, relative, rank) ==
  IF BothViews(relative, rank) THEN Raised("ValueError")
  ELSE IF table = << >> THEN Raised("IndexError")
  ELSE LET data == GfmData(table, relative, rank)
           ncols == Len(data[1])
       IN  IF \E r \in 1..Len(data) : Len(data[r]) > ncols
           THEN Raised("IndexError")
           ELSE LET width(col) == MaxWidth(data, col)
                    just == [r \in 1..Len(data) |->
                               [c \in 1..Len(data[r]) |->
                                  Justified(data[r][c], c, width(c))]]
                    bar == [c \in 1..ncols |-> HeaderBar(c, width(c))]
                    lines == << just[1], bar >> \o Tail(just)
                IN  Returned(JoinLines([r \in 1..Len(lines) |->
                                          JoinCells(lines[r])]))

\* The trials written to: the time of each scaled to milliseconds.
AggregatedScaled(res) ==
  [j \in 1..Len(res) |->
     [res[j] EXCEPT !.mintime = Some(DecMul(res[j].mintime[1], Dec(1, 3)))]]

\* The caller's list after the construction: BenchPrinter keeps the trials
\* as they are and writes to dicts of its own only.
Aggregated(res) == res

\* A BenchPrinter is constructed over results; a later one is given the
\* prefixes of the first.
PrefixPool == {None, Some(<< << >>, << "f" >>, << "b" >> >>)}

Construct ==
  /\ pc = "report"
  /\ Len(printers) < MaxPrinters
  /\ \E pre \in PrefixPool :
       /\ printers # << >> => pre = printers[1].arenaprefixes
       /\ printers' = Append(printers, BenchPrinter(results, pre, pre))
  /\ results' = Aggregated(results)
  /\ gfm' = None
  /\ UNCHANGED << inputs, progress, pc, arenalist, benchlist, arenaindices,
                  benchindices, bi, ai, trial, retval, timeitvars, ntimer,
                  timerlog, answer, filtered >>

\* to_gfm is called on a table of the printer constructed last, once after
\* its construction.
ToGfm ==
  /\ pc = "report"
  /\ gfm = None
  /\ printers # << >>
  /\ LET p == Len(printers)
     IN  \E k \in 1..Len(printers[p].tables) :
           \E relative \in BOOLEAN, rank \in BOOLEAN :
             gfm' = Some([printer |-> p,
                          table |-> k,
                          relative |-> relative,
                          rank |-> rank,
                          out |-> to_gfm(printers[p].tables[k][2],
                                         relative, rank)])
  /\ UNCHANGED << inputs, progress, pc, runvars, timeitvars, ntimer,
                  timerlog, answer, filtered, printers >>

(***************************************************************************)
(* The runs of the model.                                                  *)
(***************************************************************************)
ArenaFile == << "a", "2" >>
OtherArenaFile == << "a", "1", "0" >>
BenchFile == << "w" >>
ArenaNamePool == { << "f", "2" >>, << "f", "0", "2" >>, << "f", "1", "0" >> }
BenchNamePool == { << "b", "2" >>, << "b", "1", "0" >> }

\* The non-empty lists of at most n names of a pool.
NameLists(pool, n) == UNION {[1..k -> pool] : k \in 1..n}

NoTimeit ==
  /\ statements = << >>
  /\ setup = << >>
  /\ loops = 0
  /\ i = 0
  /\ runtime = None
  /\ runtimeloops = None
  /\ tret = None
  /\ tcalls = [probe |-> 0, repeat |-> 0]

\* The arena dicts of the runs: one file that lists up to MaxArenaNames names
\* (in any order, a name possibly more than once), or two files of one
\* function each, in either order.
ArenaDicts ==
  {<< << ArenaFile, l >> >> : l \in NameLists(ArenaNamePool, MaxArenaNames)}
  \cup {<< << fs[1], << n1 >> >>, << fs[2], << n2 >> >> >> :
          fs \in {<< ArenaFile, OtherArenaFile >>,
                  << OtherArenaFile, ArenaFile >>},
          n1 \in ArenaNamePool, n2 \in ArenaNamePool}

\* <<verbose, trialcallback>> of the calls: no callback with and without
\* verbose, and a callback of the caller's with verbose.
Calls == {<< FALSE, "None" >>, << TRUE, "None" >>, << TRUE, "given" >>}

\* A call of runbenchmarks with the default mintime and numrepeat.
Init ==
  /\ arenadict \in ArenaDicts
  /\ benchdict \in {<< << BenchFile, l >> >> :
                      l \in NameLists(BenchNamePool, MaxBenchNames)}
  /\ mintime = default_mintime
  /\ numrepeat = default_numrepeat
  /\ timer = [kind |-> "percell", cost |-> Float(0)]
  /\ trialfilter \in {"None", "given"}
  /\ \E call \in Calls : verbose = call[1] /\ trialcallback = call[2]
  /\ progress = None
  /\ caller = "runbenchmarks"
  /\ pc = "start"
  /\ arenalist = << >>
  /\ benchlist = << >>
  /\ arenaindices = << >>
  /\ benchindices = << >>
  /\ bi = 0
  /\ ai = 0
  /\ trial = None
  /\ results = << >>
  /\ retval = None
  /\ NoTimeit
  /\ ntimer = 0
  /\ timerlog = << >>
  /\ answer = None
  /\ filtered = {}
  /\ printers = << >>
  /\ gfm = None

Next == Start \/ Cell \/ Probe \/ Finish \/ Callback

Spec == Init /\ [][Next]_vars

(***************************************************************************)
(* Failures of the collaborators.  Nothing in runbenchmarks, getbenchlist, *)
(* getbenchstrings or bettertimeit catches an exception, so one raised for *)
(* one name or in one cell leaves runbenchmarks.                           *)
(***************************************************************************)
\* getbenchstrings: getattr(mod, benchname) finds no function of that name
\* and raises AttributeError, inside getbenchlist, before the loops.
SnippetFails ==
  /\ pc = "start"
  /\ \E k \in 1..Len(benchdict) : benchdict[k][2] # << >>
  /\ pc' = "raised"
  /\ UNCHANGED << inputs, progress, runvars, timeitvars, ntimer, timerlog,
                  answer, filtered, printvars >>

\* timer.timeit or timer.repeat: the timed statements of the cell raise.
TimerRaises ==
  /\ \/ pc = "probe"
     \/ pc = "repeat" /\ RepeatCount(numrepeat) > 0
  /\ pc' = "raised"
  /\ ntimer' = ntimer + 1
  /\ timerlog' = Logged(timerlog, << statements, setup >>)
  /\ UNCHANGED << inputs, progress, runvars, timeitvars, answer, filtered,
                  printvars >>

\* Calls without hooks, where no filter or callback asks to stop.
InitFaults ==
  /\ Init
  /\ trialfilter = "None"
  /\ trialcallback = "None"
  /\ ~verbose

NextFaults == Next \/ SnippetFails \/ TimerRaises

SpecFaults == InitFaults /\ [][NextFaults]_vars

\* A direct call of bettertimeit.
MinTimes == {64, 100}
CostNums == {1, 3, 5, 7, 65, 129}

Timers ==
  {[kind |-> "proportional", cost |-> DivPow2(Float(c), s)] :
     c \in CostNums, s \in 0..MaxShift}
  \cup {[kind |-> k, cost |-> Float(0)] : k \in {"monotone", "any"}}

InitTimeit ==
  /\ arenadict = << >>
  /\ benchdict = << >>
  /\ mintime \in MinTimes
  /\ numrepeat \in 1..MaxRepeat
  /\ timer \in Timers
  /\ trialfilter = "None"
  /\ trialcallback = "None"
  /\ verbose = FALSE
  /\ progress = None
  /\ caller = "direct"
  /\ pc = "probe"
  /\ arenalist = << >>
  /\ benchlist = << >>
  /\ arenaindices = << >>
  /\ benchindices = << >>
  /\ bi = 0
  /\ ai = 0
  /\ trial = None
  /\ results = << >>
  /\ retval = None
  /\ NoTimeit
  /\ ntimer = 0
  /\ timerlog = << >>
  /\ answer = None
  /\ filtered = {}
  /\ printers = << >>
  /\ gfm = None

NextTimeit == Probe \/ Finish

SpecTimeit == InitTimeit /\ [][NextTimeit]_vars

\* The Result Sets given to BenchPrinter: trials of the cells of a run of two
\* workloads of one file with three candidates of one file and one of
\* another, in visiting order, each with a time of its own.
ReportArenaDict ==
  << << ArenaFile, << << "f", "2" >>, << "f", "1", "0" >>,
                      << "f", "1", "1" >> >> >>,
     << OtherArenaFile, << << "f", "2" >> >> >> >>

ReportBenchDict ==
  << << BenchFile, << << "b", "2" >>, << "b", "1", "0" >> >> >> >>

\* The trials of all cells of that run, not yet measured.
MatrixTrials ==
  LET al == getarenalist(ReportArenaDict)
      bl == getbenchlist(ReportBenchDict)
      aindices == Indices(ReportArenaDict)
      bindices == Indices(ReportBenchDict)
  IN  [k \in 1..(Len(bl) * Len(al)) |->
         BuildTrial(bl[((k - 1) \div Len(al)) + 1],
                    al[((k - 1) % Len(al)) + 1], aindices, bindices)]

\* A trial measured with one loop and the one time sec.
Timed(t, sec) ==
  [t EXCEPT !.loops = Some(0), !.mintime = Some(sec), !.times = Some(<< sec >>)]

\* Times around one second (999e-3, 1000e-3, 2, 3): the two that a trial of
\* the candidate with index 0, 1, 2 may take.
NearOne ==
  << {Dec(1000, -3), Dec(2, 0)},
     {Dec(999, -3), Dec(1000, -3)},
     {Dec(2, 0), Dec(3, 0)} >>

TimesNear(t) == NearOne[t.arenaindex + 1]

\* The lowest and the highest three-digit time of every unit from femto
\* to tera.
Ladder == {Dec(m, 3 * k) : m \in {1, 999}, k \in -5..4}

\* The trials of the cells sel of the matrix mt, in visiting order, with the
\* times tm.
ResultsOf(mt, sel, tm) ==
  LET cells == Ascending(sel)
  IN  [j \in 1..Len(cells) |-> Timed(mt[cells[j]], tm[cells[j]])]

ResultSets ==
  LET mt == MatrixTrials
      near == [c \in DOMAIN mt |-> TimesNear(mt[c])]
  IN  UNION {{ResultsOf(mt, sel, tm) :
                tm \in {f \in [sel -> UNION Range(NearOne)] :
                          \A c \in sel : f[c] \in near[c]}} :
               sel \in {c \in SUBSET DOMAIN mt : Cardinality(c) <= MaxTrials}}
      \cup {<< Timed(mt[c], sec) >> : c \in DOMAIN mt, sec \in Ladder}

\* A Result Set is at hand and no BenchPrinter is constructed yet.
InitReport ==
  /\ arenadict = ReportArenaDict
  /\ benchdict = ReportBenchDict
  /\ mintime = default_mintime
  /\ numrepeat = default_numrepeat
  /\ timer = [kind |-> "percell", cost |-> Float(0)]
  /\ trialfilter = "None"
  /\ trialcallback = "None"
  /\ verbose = FALSE
  /\ progress = None
  /\ caller = "runbenchmarks"
  /\ pc = "report"
  /\ arenalist = << >>
  /\ benchlist = << >>
  /\ arenaindices = << >>
  /\ benchindices = << >>
  /\ bi = 0
  /\ ai = 0
  /\ trial = None
  /\ results \in ResultSets
  /\ retval = None
  /\ NoTimeit
  /\ ntimer = 0
  /\ timerlog = << >>
  /\ answer = None
  /\ filtered = {}
  /\ printers = << >>
  /\ gfm = None

NextReport == Construct \/ ToGfm

SpecReport == InitReport /\ [][NextReport]_vars

(***************************************************************************)
(* The properties of runbenchmarks (checked under Spec).                   *)
(***************************************************************************)
CellOf(t) == << t.benchfile, t.benchname, t.arenafile, t.arenaname >>
TimedAs(t) == << t.benchstring, t.setupstring >>
CancelAnswer == Some(<< "trialcallback", "False" >>)
FilterFalse == Some(<< "trialfilter", "False" >>)
AnswerOf(hook) == answer # None /\ answer[1][1] = hook

\* C1: when trialcallback answers False the run has returned: the Result Set
\* returned is the list of the trials measured so far, in the order they were
\* timed, its last trial is the one the callback was shown, and no step (no
\* timer run, no hook call) follows that answer.
C1_CancelReturnsAtOnce ==
  /\ [](answer = CancelAnswer =>
         /\ pc = "returned"
         /\ retval = Some(results)
         /\ results # << >>
         /\ results[Len(results)] = trial
         /\ [j \in 1..Len(results) |-> TimedAs(results[j])] = timerlog)
  /\ [][answer # CancelAnswer]_vars

\* C1's case: 2 workloads x 3 candidates, False after the 2nd trial.
C1_Witness ==
  /\ answer = CancelAnswer
  /\ Len(benchlist) = 2
  /\ Len(arenalist) = 3
  /\ Len(retval[1]) = 2
  /\ ntimer > 0

\* C2: a trial trialfilter answered False to is never timed, never in the
\* Result Set and never shown to trialcallback; the step of that answer leaves
\* the Result Set and the timer alone and goes to the next cell of the loops
\* (or returns after the last one); a run that ends without a cancellation
\* returns one trial per cell that was not rejected.
C2_RejectedCellSkipped ==
  /\ [](\A t \in filtered :
          /\ TimedAs(t) \notin Range(timerlog)
          /\ \A j \in 1..Len(results) : CellOf(results[j]) # CellOf(t)
          /\ AnswerOf("trialcallback") => CellOf(trial) # CellOf(t))
  /\ [](answer = FilterFalse => trial \in filtered /\ pc \in {"cell", "returned"})
  /\ [][answer' = FilterFalse =>
          /\ results' = results
          /\ ntimer' = ntimer
          /\ timerlog' = timerlog
          /\ IF NextCell(bi, ai) = << >>
             THEN pc' = "returned" /\ retval' = Some(results)
             ELSE pc' = "cell" /\ << bi', ai' >> = NextCell(bi, ai)]_vars
  /\ [](pc = "returned" /\ answer # CancelAnswer =>
          Len(retval[1]) + Cardinality(filtered)
            = Len(benchlist) * Len(arenalist))

\* C2's case: 2 workloads x 3 candidates, one candidate rejected in both rows
\* and the other four cells measured.
C2_Witness ==
  /\ pc = "returned"
  /\ Len(benchlist) = 2
  /\ Len(arenalist) = 3
  /\ Cardinality(filtered) = 2
  /\ Cardinality({t.arenaname : t \in filtered}) = 1
  /\ Len(retval[1]) = 4
  /\ ntimer > 0

Unset(t) == t.loops = None /\ t.times = None /\ t.mintime = None

IsSet(t) ==
  /\ t.loops # None
  /\ t.times # None
  /\ t.mintime # None
  /\ t.mintime[1] \in Range(t.times[1])
  /\ \A j \in 1..Len(t.times[1]) : ~DyLess(t.times[1][j], t.mintime[1])

OtherFields(t) == [t EXCEPT !.loops = None, !.times = None, !.mintime = None]

\* C5: trialfilter is shown a trial with loops, times and mintime None, before
\* anything of the cell is timed; trialcallback is shown a timed trial with the
\* three set and mintime the minimum of times; every trial of the Result Set
\* has them set; from the filter's call to the callback's call the other
\* fields of the trial do not change.
C5_TrialStateAtHooks ==
  /\ [](AnswerOf("trialfilter") =>
          Unset(trial) /\ TimedAs(trial) \notin Range(timerlog))
  /\ [](AnswerOf("trialcallback") =>
          IsSet(trial) /\ TimedAs(trial) \in Range(timerlog))
  /\ [](\A j \in 1..Len(results) : IsSet(results[j]))
  /\ [](pc \in {"probe", "repeat", "update"} => Unset(trial))
  /\ [][(pc \in {"probe", "repeat", "update"}) =>
          OtherFields(trial') = OtherFields(trial)]_vars

\* C5's case: a callback is shown a trial whose times differ, after a filter
\* accepted it.
C5_Witness ==
  /\ AnswerOf("trialcallback")
  /\ trialfilter = "given"
  /\ IsSet(trial)
  /\ Cardinality(Range(trial.times[1])) > 1
  /\ trial.mintime[1] # trial.times[1][1]

\* C6: no two trials of the Result Set are of the same (workload file,
\* workload name, candidate file, candidate name).
C6_OneTrialPerCell ==
  \A j, k \in 1..Len(results) :
    j # k => CellOf(results[j]) # CellOf(results[k])

HasRepeat(l) == \E j, k \in 1..Len(l) : j # k /\ l[j] = l[k]

\* C6's case: a finished run of two workloads whose arena list names three
\* functions, one of them twice: four trials.
C6_Witness ==
  /\ pc = "returned"
  /\ Len(arenadict[1][2]) = 3
  /\ HasRepeat(arenadict[1][2])
  /\ Len(arenalist) = 2
  /\ Len(benchlist) = 2
  /\ Len(results) = 4

\* The lists of the same items as s, in every order.
PermsOf(s) ==
  {[j \in 1..Len(s) |-> s[p[j]]] : p \in Permutations(1..Len(s))}

\* d2 is the dict d1 written in another order: the same files, each with the
\* same names, the files and the names of a file in any order.
SameInputs(d1, d2) ==
  /\ Len(d1) = Len(d2)
  /\ \E p \in Permutations(1..Len(d1)) :
       \A j \in 1..Len(d1) :
         /\ d2[j][1] = d1[p[j]][1]
         /\ d2[j][2] \in PermsOf(d1[p[j]][2])

\* A list is in natural order: no item has a smaller key than the one before.
NaturalOrder(l) ==
  \A j \in 1..(Len(l) - 1) :
    ~KeyLess(numericstringkey(l[j + 1], TRUE),
             numericstringkey(l[j], TRUE), TRUE)

\* The place of a trial's cell in the loops: (workload, candidate).
PlaceOf(t) ==
  << CHOOSE k \in 1..Len(benchlist) :
       benchlist[k][1] = t.benchfile /\ benchlist[k][2] = t.benchname,
     CHOOSE k \in 1..Len(arenalist) :
       arenalist[k][1] = t.arenafile /\ arenalist[k][2] = t.arenaname >>

Before(p, q) == p[1] < q[1] \/ (p[1] = q[1] /\ p[2] < q[2])

\* C3: the workloads and the candidates are visited in natural order of
\* (file, name), the Result Set lists the trials in visiting order, and the
\* order is the same for every order of the input dicts and name lists.
C3_FixedVisitingOrder ==
  pc # "start" =>
    /\ NaturalOrder(benchlist)
    /\ NaturalOrder(arenalist)
    /\ \A j, k \in 1..Len(results) :
         j < k => Before(PlaceOf(results[j]), PlaceOf(results[k]))
    /\ \A d \in ArenaDicts :
         SameInputs(arenadict, d) => getarenalist(d) = arenalist

\* A list without a repeated name.
Distinct(l) == \A j, k \in 1..Len(l) : j # k => l[j] # l[k]

\* C4: a file's n distinct names get the indices 0..n-1 in natural order, and
\* a name's index is the same for every order the names are listed in.
C4_IndicesOfNameSet ==
  pc # "start" =>
    \A e \in Range(arenadict) \cup Range(benchdict) :
      LET idx == IndexDict(e[2])
          n == Cardinality(Range(e[2]))
      IN  /\ {idx[x] : x \in DOMAIN idx} = 0..(n - 1)
          /\ \A x, y \in DOMAIN idx :
               StringKeyLess(StringKey(x), StringKey(y), 1) => idx[x] < idx[y]
          /\ \A q \in PermsOf(e[2]) : IndexDict(q) = idx
          /\ e[1] \in DOMAIN arenaindices => arenaindices[e[1]] = idx
          /\ e[1] \in DOMAIN benchindices => benchindices[e[1]] = idx

\* The probing loop was left by its break: fewer than ProbeRounds probes were
\* too short.
LeftByBreak == i < ProbeRounds

\* The reading of a proportional timer for one loop is not above mintime.
FirstProbeShort == ~DyLess(Float(mintime), timer.cost)

\* C7: with a timer that grows with the loop count, bettertimeit returns
\* loops >= 1 (loops is 2^tret.loops), and when a probe exceeded mintime
\* loops x every returned time is at least mintime.
C7_LoopsReachMintime ==
  pc = "done" /\ timer.kind \in {"monotone", "proportional"} =>
    /\ tret[1].loops >= 0
    /\ LeftByBreak =>
         \A j \in 1..Len(tret[1].times) :
           ~DyLess(MulPow2(tret[1].times[j], tret[1].loops), Float(mintime))

\* C7's case: a monotone timer, a probe long enough after some that were too
\* short, three times returned.
C7_Witness ==
  /\ pc = "done"
  /\ timer.kind = "monotone"
  /\ LeftByBreak
  /\ i >= 2
  /\ tret[1].loops >= 2
  /\ Len(tret[1].times) = 3

\* C8: with a proportional timer whose first probe is not above mintime, the
\* probe that ends probing reads in (mintime, 2*mintime], and after every
\* scaling step the reading of the new loop count is at most 2*mintime.
C8_FinalRuntimeBand ==
  /\ [](pc \in {"repeat", "done"} /\ timer.kind = "proportional"
          /\ FirstProbeShort /\ LeftByBreak =>
            /\ DyLess(Float(mintime), runtime[1])
            /\ ~DyLess(Float(2 * mintime), runtime[1]))
  /\ [][(timer.kind = "proportional" /\ FirstProbeShort /\ pc = "probe") =>
          ~DyLess(Float(2 * mintime), MulPow2(timer.cost, loops'))]_vars

\* C8's case: probing ended on the upper edge of the band after steps of the
\* table.
C8_Witness ==
  /\ pc = "done"
  /\ timer.kind = "proportional"
  /\ FirstProbeShort
  /\ LeftByBreak
  /\ i >= 3
  /\ runtime[1] = Float(2 * mintime)

C10_ProbingBounded ==
  /\ [](tcalls.probe <= ProbeRounds /\ i <= ProbeRounds)
  /\ [](pc = "repeat" => ~LeftByBreak \/ Converged(runtime[1], mintime))
  /\ [](pc = "done" /\ ~LeftByBreak =>
          /\ tret # None
          /\ tret[1].loops = loops
          /\ Len(tret[1].times) = numrepeat
          /\ tcalls.probe = ProbeRounds)
  /\ [](pc = "probe" => i < ProbeRounds /\ tcalls.probe = i)
  /\ [][(pc = "probe") =>
          /\ tcalls'.probe = tcalls.probe + 1
          /\ \/ pc' = "repeat"
             \/ pc' = "probe" /\ i' = i + 1]_vars
  /\ [][(pc = "repeat") => pc' = "done" /\ tret' # None]_vars

\* C10's case: a measurement returned after ProbeRounds probes that were all
\* too short.
C10_Witness ==
  /\ pc = "done"
  /\ ~LeftByBreak
  /\ tcalls.probe = ProbeRounds
  /\ ~Converged(runtime[1], mintime)
  /\ Len(tret[1].times) = numrepeat
  /\ numrepeat = 3

\* C16: a step in which the snippet of one name cannot be produced, or in
\* which the measurement of one cell raises, does not end the run: the run
\* is still before or in the loops, or has returned its Result Set.
C16_FailureIsLocal ==
  [][(SnippetFails \/ TimerRaises) =>
       pc' \in {"start", "cell", "probe", "repeat", "update", "returned"}]_vars

\* C19: when bettertimeit has returned, the probe whose reading is reused as
\* the last of the times was run with the loop count that is returned, and
\* the time returned for it is that reading divided by that loop count.
C19_ReadingsAtReturnedLoops ==
  pc = "done" =>
    /\ runtimeloops = Some(tret[1].loops)
    /\ tret[1].times[Len(tret[1].times)]
         = DivPow2(runtime[1], runtimeloops[1])

\* C20: a cell whose trialfilter answer is not False (no filter, or None,
\* True, 0) is measured; after a trialcallback answer that is not False the
\* run goes to the next cell of the loops, and returns only after the last
\* one; runbenchmarks installs the ProgressPrinter exactly when verbose is
\* true and the caller gave no trialcallback, and a call of the installed
\* ProgressPrinter neither raises nor answers False.
C20_OnlyFalseStops ==
  /\ [][(pc = "cell" /\ pc' # "raised" /\ answer' # FilterFalse) =>
          /\ pc' = "probe"
          /\ trial' \notin filtered'
          /\ results' = results]_vars
  /\ [][(pc = "update" /\ pc' # "raised" /\ answer' # CancelAnswer) =>
          IF NextCell(bi, ai) = << >>
          THEN pc' = "returned"
          ELSE pc' = "cell" /\ << bi', ai' >> = NextCell(bi, ai)]_vars
  /\ [][(pc = "start") =>
          /\ trialcallback' = IF verbose /\ trialcallback = "None"
                              THEN "ProgressPrinter" ELSE trialcallback
          /\ (progress' # None) = (verbose /\ trialcallback = "None")]_vars
  /\ []((progress # None) = (trialcallback = "ProgressPrinter"))
  /\ [][(pc = "update" /\ trialcallback = "ProgressPrinter") =>
          /\ pc' # "raised"
          /\ answer' = Some(<< "trialcallback", "None" >>)
          /\ progress' # progress]_vars

\* C20's case: the ProgressPrinter is installed and was called for a trial,
\* the run went on to the next cell, and there trialfilter answered 0.
C20_Witness ==
  /\ trialcallback = "ProgressPrinter"
  /\ progress[1].benchname.isset
  /\ Len(results) >= 1
  /\ answer = Some(<< "trialfilter", "0" >>)
  /\ pc = "probe"

(***************************************************************************)
(* The properties of BenchPrinter (checked under SpecReport).              *)
(***************************************************************************)
\* The rows of the tables of a printer, and of all printers.
RowsOf(pr) == UNION {Range(pr.tables[k][2]) : k \in 1..Len(pr.tables)}
AllRows == UNION {RowsOf(printers[p]) : p \in 1..Len(printers)}

\* The relative time 1.0.
One == [p |-> 1, q |-> 1]

\* A cell holds the lowest time of its row.
Lowest(row, c) == \A d \in 1..Len(row) : ~DecLess(row[d].seconds, row[c].seconds)

\* C11: in every row of every table a cell whose time is the minimum of the
\* row (isbest) has rank 1, ties included; the cell of a row of one cell has
\* rank 1, relative time 1.0 and isbest true.
C11_BestHasRankOne ==
  \A row \in AllRows :
    \A c \in 1..Len(row) :
      /\ row[c].isbest <=> Lowest(row, c)
      /\ row[c].isbest => row[c].rank = 1
      /\ Len(row) = 1 =>
           row[c].rank = 1 /\ row[c].reltime = One /\ row[c].isbest

\* a as a count of the units of the lower of the exponents of a and b.
Units(a, b) == a.m * (10 ^ (a.e - (IF a.e < b.e THEN a.e ELSE b.e)))

\* C12: in every row (times are positive) a cell with isbest has relative
\* time 1.0 and no cell of the row has a smaller rank; some cell has isbest;
\* the relative time of a cell is its time over the minimum of the row, and
\* is at least 1.0.
C12_BestIsOneAndLowestRank ==
  \A row \in AllRows :
    /\ \E c \in 1..Len(row) : row[c].isbest
    /\ \A c \in 1..Len(row) :
         /\ row[c].reltime.p >= row[c].reltime.q
         /\ \E b \in 1..Len(row) :
              /\ Lowest(row, b)
              /\ row[c].reltime.p * Units(row[b].seconds, row[c].seconds)
                   = row[c].reltime.q * Units(row[c].seconds, row[b].seconds)
         /\ row[c].isbest =>
              /\ row[c].reltime = One
              /\ \A d \in 1..Len(row) : row[c].rank <= row[d].rank

\* C12's case: a row of three cells, two of them with the lowest time and the
\* third slower.
C12_Witness ==
  \E row \in AllRows :
    /\ Len(row) = 3
    /\ Cardinality({c \in 1..3 : row[c].isbest}) = 2
    /\ \E c \in 1..3 : row[c].reltime.p > row[c].reltime.q

\* C13: in a row a smaller time has a smaller rank and equal times have equal
\* ranks; when the n times of a row all differ the ranks are 1..n, the rank
\* of a cell being the place of its time in ascending order.
C13_RankFollowsTime ==
  \A row \in AllRows :
    /\ \A c, d \in 1..Len(row) :
         /\ DecLess(row[c].seconds, row[d].seconds) =>
              row[c].rank < row[d].rank
         /\ row[c].seconds = row[d].seconds => row[c].rank = row[d].rank
    /\ Cardinality({row[c].seconds : c \in 1..Len(row)}) = Len(row) =>
         /\ {row[c].rank : c \in 1..Len(row)} = 1..Len(row)
         /\ \A c \in 1..Len(row) :
              row[c].rank
                = 1 + Cardinality({d \in 1..Len(row) :
                                     DecLess(row[d].seconds, row[c].seconds)})

\* C13's case: a row of three different times that are not in the order of
\* the columns.
C13_Witness ==
  \E row \in AllRows :
    /\ Len(row) = 3
    /\ row[1].rank = 2
    /\ row[2].rank = 1
    /\ row[3].rank = 3

\* The places <<table, row, column>> of the cells of a printer.
CellsOf(pr) ==
  UNION {UNION {{<< k, r, c >> : c \in 1..Len(pr.tables[k][2][r])} :
                  r \in 1..Len(pr.tables[k][2])} :
           k \in 1..Len(pr.tables)}

CellAt(pr, at) == pr.tables[at[1]][2][at[2]][at[3]]

\* C14: a printer has one table for each (benchfile, arenafile) that has a
\* trial in the Result Set and no other; no table and no row is empty; every
\* trial is the trial of exactly one cell, in the table of its files, and
\* every cell is of a trial; rows are in ascending benchindex and the cells
\* of a row in ascending arenaindex.
C14_TablesHoldTheTrials ==
  \A p \in 1..Len(printers) :
    LET pr == printers[p]
        keys == {<< t.benchfile, t.arenafile >> : t \in Range(pr.results)}
    IN  /\ {pr.tables[k][1] : k \in 1..Len(pr.tables)} = keys
        /\ Len(pr.tables) = Cardinality(keys)
        /\ \A k \in 1..Len(pr.tables) :
             LET table == pr.tables[k][2]
             IN  /\ table # << >>
                 /\ \A r \in 1..Len(table) :
                      /\ table[r] # << >>
                      /\ r < Len(table) =>
                           table[r][1].benchindex < table[r + 1][1].benchindex
                      /\ \A c \in 1..Len(table[r]) :
                           /\ table[r][c].benchindex = table[r][1].benchindex
                           /\ c < Len(table[r]) =>
                                table[r][c].arenaindex
                                  < table[r][c + 1].arenaindex
        /\ \A j \in 1..Len(pr.results) :
             LET at == {x \in CellsOf(pr) :
                          CellAt(pr, x).trialdata = pr.results[j]}
             IN  /\ Cardinality(at) = 1
                 /\ \A x \in at :
                      pr.tables[x[1]][1]
                        = << pr.results[j].benchfile, pr.results[j].arenafile >>
        /\ \A x \in CellsOf(pr) :
             LET d == CellAt(pr, x)
             IN  /\ d.trialdata \in Range(pr.results)
                 /\ d.benchindex = d.trialdata.benchindex
                 /\ d.arenaindex = d.trialdata.arenaindex
                 /\ d.seconds = d.trialdata.mintime[1]

\* C14's case: three trials of two candidate files: a table of two rows and
\* a table of one.
C14_Witness ==
  /\ printers # << >>
  /\ Len(results) = 3
  /\ Len(printers[1].tables) = 2
  /\ Len(printers[1].tables[1][2]) = 2
  /\ Len(printers[1].tables[2][2]) = 1

\* The scales of best_units with their prefixes.
UnitScales ==
  {<< Dec(1, 15), << "f" >> >>, << Dec(1, 12), << "p" >> >>,
   << Dec(1, 9), << "n" >> >>, << Dec(1, 6), << "u" >> >>,
   << Dec(1, 3), << "m" >> >>, << Dec(1, 0), << >> >>,
   << Dec(1, -3), << "k" >> >>, << Dec(1, -6), << "M" >> >>,
   << Dec(1, -9), << "G" >> >>, << Dec(1, -12), << "T" >> >>}

\* C15: the cells of a row have one scale and one unit, a pair of the ladder;
\* the scaled time is time * scale; the highest time of the row, when it is
\* in [1e-15, 1e15), scales into [1, 1000); a highest time of 1.0 (which
\* 1000e-3 is) has scale 1.0 and the unit s, one of 999e-3 the unit ms.
C15_RowUnits ==
  \A row \in AllRows :
    \E b \in 1..Len(row) :
      /\ \A d \in 1..Len(row) : ~DecLess(row[b].seconds, row[d].seconds)
      /\ \A c \in 1..Len(row) :
           /\ row[c].scale = row[b].scale
           /\ row[c].units = row[b].units
           /\ row[c].time = DecMul(row[c].seconds, row[c].scale)
      /\ \E su \in UnitScales :
           row[b].scale = su[1] /\ row[b].units = su[2] \o << "s" >>
      /\ ~DecLess(row[b].seconds, Dec(1, -15))
           /\ DecLess(row[b].seconds, Dec(1, 15)) =>
             /\ ~DecLess(row[b].time, Dec(1, 0))
             /\ DecLess(row[b].time, Dec(1000, 0))
      /\ row[b].seconds \in {Dec(1, 0), Dec(1000, -3)} =>
           row[b].scale = Dec(1, 0) /\ row[b].units = << "s" >>
      /\ row[b].seconds = Dec(999, -3) =>
           row[b].scale = Dec(1, 3) /\ row[b].units = << "m", "s" >>

\* C15's case: a row whose highest time is 1.0, with a cell of 999e-3 beside
\* it.
C15_Witness ==
  \E row \in AllRows :
    /\ Len(row) = 2
    /\ row[1].seconds = Dec(1000, -3)
    /\ row[2].seconds = Dec(999, -3)
    /\ row[2].units = << "s" >>
    /\ row[2].time = Dec(999, -3)

\* What to_gfm gave when the last step called it.
Out == gfm[1].out

\* C17: to_gfm with relative and rank both true raises ValueError and gives
\* no text, for every table, and with any other views it does not raise it;
\* a call of to_gfm leaves the printers and their tables as they were.
C17_BothViewsRejected ==
  /\ [](gfm # None =>
          IF gfm[1].relative /\ gfm[1].rank
          THEN Out.raised = "ValueError" /\ Out.text = << >>
          ELSE Out.raised # "ValueError")
  /\ [][gfm' # None /\ gfm = None =>
          printers' = printers /\ results' = results]_vars

\* C17's case: both views asked of the second table of a printer.
C17_Witness ==
  /\ gfm # None
  /\ gfm[1].relative
  /\ gfm[1].rank
  /\ gfm[1].table = 2
  /\ Out.raised = "ValueError"
  /\ printers[1].tables[2][2] # << >>

ColumnsOf(row) == {row[c].arenaindex : c \in 1..Len(row)}

\* C21: in every table all rows hold cells for the candidate indices of the
\* first row, so that the cell at a place of a row is of the candidate the
\* header names at that place, and to_gfm does not run off the header.
C21_RowsShareColumns ==
  /\ \A p \in 1..Len(printers) : \A k \in 1..Len(printers[p].tables) :
       LET table == printers[p].tables[k][2]
       IN  \A r \in 1..Len(table) :
             /\ ColumnsOf(table[r]) = ColumnsOf(table[1])
             /\ \A c \in 1..Len(table[r]) :
                  table[r][c].arenashort = table[1][c].arenashort
  /\ gfm # None => Out.raised # "IndexError"
====
